---- MODULE Spec2Model ----
(***************************************************************************)
(* Points / leaderboard recomputation of the Opvera schema                 *)
(* (src/supabase.sql): the source relations projects, assignments and      *)
(* quiz_attempts, the four calculate_*_points functions, the trigger       *)
(* function update_leaderboard, refresh_user_leaderboard, and the          *)
(* row-level-security policies that guard the relations.                   *)
(*                                                                         *)
(* SQL expressions are modelled by their relational meaning: the trigger's *)
(* COALESCE(NEW.student_id, NEW.owner_id, NEW.user_id) is the user column  *)
(* of the relation the trigger fired on, and the jsonb comparison of       *)
(* calculate_quiz_points compares the answer with the correct index as     *)
(* numbers.                                                                *)
(***************************************************************************)
EXTENDS Integers, Sequences, FiniteSets, TLC

VARIABLES users, quizzes, projects, assignments, quiz_attempts, leaderboard, lastOp,
          txns, ai, proxy

vars == <<users, quizzes, projects, assignments, quiz_attempts, leaderboard, lastOp,
          txns, ai, proxy>>

(***************************************************************************)
(* Bounds of the model.                                                    *)
(***************************************************************************)
\* rows held by the three source relations together
MaxRows == 3

\* SQL NULL in a nullable column (submission_url, completed_at, rank)
NULL == "NULL"

\* the rows of the users relation: u1 and u2 are students, u3 is a mentor
UserIds == {"u1", "u2", "u3"}

\* users that own source rows in the explored runs
Owners == {"u1", "u2"}

\* a session that is exempt from row level security (the table owner or a
\* role with BYPASSRLS, such as the platform's service role)
Service == "service"

\* the client sessions explored: the student u1 and the mentor u3
Clients == {"u1", "u3"}

Sessions == Clients \cup {Service}

\* the questions column of the two quizzes: the correctIndex of each question
QuizBank ==
    [q1 |-> <<0, 1, 2, 3, 0, 1, 2, 3, 0, 1>>,
     q2 |-> <<0, 0>>]

\* the (quiz_id, answers) pairs a written attempt may hold: ten answers to q1
\* of which eight are correct, and three answers to the two questions of q2
AttemptInputs ==
    { <<"q1", <<0, 1, 2, 3, 0, 1, 2, 3, 1, 0>>>>,
      <<"q2", <<0, 0, 1>>>> }

\* tags column of a project
TagSets == { {}, {"challenge"} }

(***************************************************************************)
(* Helpers over finite sets of rows.                                       *)
(***************************************************************************)
RECURSIVE SumOver(_, _)
\* SUM(f(row)) over a finite set of rows; f is a function on the rows
SumOver(S, f) ==
    IF S = {} THEN 0
    ELSE LET x == CHOOSE y \in S : TRUE
         IN  f[x] + SumOver(S \ {x}, f)

RowCount == Cardinality(projects) + Cardinality(assignments) + Cardinality(quiz_attempts)

\* uuid_generate_v4(): an id no row of the relation has yet
FreshId(rows) == CHOOSE i \in 1..MaxRows : \A r \in rows : r.id # i

(***************************************************************************)
(* calculate_quiz_points: per completed attempt, the number of pairs       *)
(* (answer at ordinal idx, question at ordinal qidx) with idx = qidx whose *)
(* answer equals the question's correctIndex; summed over the attempts of  *)
(* the student joined to their quiz.                                       *)
(***************************************************************************)
AttemptCorrect(qa, questions) ==
    Cardinality({ pr \in (1..Len(qa.answers)) \X (1..Len(questions)) :
                    /\ pr[1] = pr[2]
                    /\ qa.answers[pr[1]] = questions[pr[2]] })

\* a variant that leaves out the completed_at test
calculate_quiz_points_any_attempt(attempts, quizTable, student_id) ==
    LET mine == { qa \in attempts :
                    /\ qa.quiz_id \in DOMAIN quizTable
                    /\ qa.student_id = student_id }
        pts  == [qa \in mine |-> AttemptCorrect(qa, quizTable[qa.quiz_id])]
    IN  SumOver(mine, pts)

calculate_quiz_points(attempts, quizTable, student_id) ==
    LET mine == { qa \in attempts :
                    /\ qa.quiz_id \in DOMAIN quizTable
                    /\ qa.student_id = student_id }
        pts  == [qa \in mine |->
                    IF qa.completed_at # NULL
                    THEN AttemptCorrect(qa, quizTable[qa.quiz_id])
                    ELSE 0]
    IN  SumOver(mine, pts)

\* a variant that leaves out the submission_url test
calculate_assignment_points_any_row(asgs, student_id) ==
    Cardinality({ a \in asgs : a.student_id = student_id }) * 20

\* calculate_assignment_points: 20 per assignment with submission_url IS NOT NULL
calculate_assignment_points(asgs, student_id) ==
    Cardinality({ a \in asgs :
                    a.student_id = student_id /\ a.submission_url # NULL }) * 20

\* a variant that leaves out the owner test
calculate_project_points_any_owner(projs, student_id) ==
    Cardinality({ p \in projs : p.verified }) * 100

\* calculate_project_points: 100 per project with verified = true
calculate_project_points(projs, student_id) ==
    Cardinality({ p \in projs : p.owner_id = student_id /\ p.verified }) * 100

\* a variant that leaves out the verified test
calculate_challenge_points_unverified(projs, student_id) ==
    Cardinality({ p \in projs :
                    p.owner_id = student_id /\ "challenge" \in p.tags }) * 80

\* calculate_challenge_points: 80 per verified project with 'challenge' = ANY(tags)
calculate_challenge_points(projs, student_id) ==
    Cardinality({ p \in projs :
                    /\ p.owner_id = student_id
                    /\ p.verified
                    /\ "challenge" \in p.tags }) * 80

(***************************************************************************)
(* Row level security.  Every relation has RLS enabled and none has FORCE  *)
(* ROW LEVEL SECURITY, so a policy binds every session except one that is  *)
(* exempt (Service).  auth.uid() of a client session is the auth_uid of    *)
(* that client's users row; the model names a users row by its session.    *)
(***************************************************************************)
BypassRLS(session) == session = Service

\* EXISTS (SELECT 1 FROM users WHERE id = <owner column> AND auth_uid = auth.uid())
IsOwnRow(session, owner) == \E u \in DOMAIN users : u = owner /\ u = session

\* "Users can create projects": INSERT WITH CHECK (owner is the caller)
projects_insert_policy(session, row) == IsOwnRow(session, row.owner_id)

\* a variant that checks only the row as it was
projects_update_policy_old_row_only(session, old, new) ==
    IsOwnRow(session, old.owner_id)

\* "Users can update their own projects": UPDATE USING (owner is the caller);
\* with no WITH CHECK clause the USING expression also checks the new row
projects_update_policy(session, old, new) ==
    IsOwnRow(session, old.owner_id) /\ IsOwnRow(session, new.owner_id)

\* "Students can create assignments": INSERT WITH CHECK (student is the caller)
assignments_insert_policy(session, row) == IsOwnRow(session, row.student_id)

\* assignments has no UPDATE policy: with RLS enabled nothing is permitted
assignments_update_policy(session, old, new) == FALSE

\* "Students can create quiz attempts": INSERT WITH CHECK (student is the caller)
quiz_attempts_insert_policy(session, row) == IsOwnRow(session, row.student_id)

\* quiz_attempts has no UPDATE policy
quiz_attempts_update_policy(session, old, new) == FALSE

\* "No direct leaderboard inserts": INSERT WITH CHECK (false)
leaderboard_insert_policy(session, row) == FALSE

\* "No direct leaderboard updates": UPDATE USING (false)
leaderboard_update_policy(session, row) == FALSE

\* "No direct leaderboard deletes": DELETE USING (false)
leaderboard_delete_policy(session, row) == FALSE

(***************************************************************************)
(* The leaderboard relation and its recomputation.                         *)
(***************************************************************************)
\* rank of a row inserted by the upsert, which names no rank column (SQL NULL)
NoRank == 0

\* a variant whose total leaves out the challenge points
EntryFor_total_without_challenges(projs, asgs, atts, quizTable, uid) ==
    LET quiz_points       == calculate_quiz_points(atts, quizTable, uid)
        assignment_points == calculate_assignment_points(asgs, uid)
        project_points    == calculate_project_points(projs, uid)
        challenge_points  == calculate_challenge_points(projs, uid)
    IN  [user_id      |-> uid,
         total_points |-> quiz_points + assignment_points + project_points,
         breakdown    |-> [quizzes     |-> quiz_points,
                           assignments |-> assignment_points,
                           projects    |-> project_points,
                           challenges  |-> challenge_points],
         rank         |-> NoRank]

\* the row the upsert proposes for a user: VALUES (target, total, breakdown)
EntryFor(projs, asgs, atts, quizTable, uid) ==
    LET quiz_points       == calculate_quiz_points(atts, quizTable, uid)
        assignment_points == calculate_assignment_points(asgs, uid)
        project_points    == calculate_project_points(projs, uid)
        challenge_points  == calculate_challenge_points(projs, uid)
    IN  [user_id      |-> uid,
         total_points |-> quiz_points + assignment_points
                          + project_points + challenge_points,
         breakdown    |-> [quizzes     |-> quiz_points,
                           assignments |-> assignment_points,
                           projects    |-> project_points,
                           challenges  |-> challenge_points],
         rank         |-> NoRank]

\* a variant whose update sets the total and breakdown of every row
UpsertEntry_updating_every_row(lb, row) ==
    { [row EXCEPT !.user_id = e.user_id, !.rank = e.rank] : e \in lb }
       \cup (IF \E e \in lb : e.user_id = row.user_id THEN {} ELSE {row})

\* INSERT ... ON CONFLICT (user_id) DO UPDATE SET total_points, breakdown:
\* a row of the same user keeps its rank, a new row has none
UpsertEntry(lb, row) ==
    LET old == { e \in lb : e.user_id = row.user_id }
    IN  IF old = {} THEN lb \cup {row}
        ELSE (lb \ old) \cup { [row EXCEPT !.rank = e.rank] : e \in old }

\* a variant that numbers the rows by ascending total_points
ranked_users_ascending(lb) ==
    LET ids == { e.user_id : e \in lb }
        tot == [u \in ids |-> (CHOOSE e \in lb : e.user_id = u).total_points]
    IN  { r \in [ids -> 1..Cardinality(ids)] :
            /\ \A a, b \in ids : a # b => r[a] # r[b]
            /\ \A a, b \in ids : tot[a] > tot[b] => r[a] > r[b] }

\* ROW_NUMBER() OVER (ORDER BY total_points DESC): the numberings 1..n of the
\* rows that follow descending total_points; rows that tie may get either order
ranked_users(lb) ==
    LET ids == { e.user_id : e \in lb }
        tot == [u \in ids |-> (CHOOSE e \in lb : e.user_id = u).total_points]
    IN  { r \in [ids -> 1..Cardinality(ids)] :
            /\ \A a, b \in ids : a # b => r[a] # r[b]
            /\ \A a, b \in ids : tot[a] > tot[b] => r[a] < r[b] }

\* UPDATE leaderboard SET rank = new_rank FROM ranked_users WHERE user_id matches
UpdateRanks(lb, r) == { [e EXCEPT !.rank = r[e.user_id]] : e \in lb }

\* may the session's upsert and rank update touch the leaderboard
LeaderboardWriteAllowed(session, row) ==
    \/ BypassRLS(session)
    \/ /\ leaderboard_insert_policy(session, row)
       /\ leaderboard_update_policy(session, row)

\* a variant with an exception handler that returns NEW when a statement of
\* the function fails
update_leaderboard_swallowing_errors(session, lb, projs, asgs, atts, quizTable, target_user_id) ==
    LET row == EntryFor(projs, asgs, atts, quizTable, target_user_id)
        ups == UpsertEntry(lb, row)
    IN  IF ~LeaderboardWriteAllowed(session, row) THEN {lb}
        ELSE { UpdateRanks(ups, r) : r \in ranked_users(ups) }

\* update_leaderboard(): the trigger function, run with the rights of the
\* session whose statement fired it (it is not SECURITY DEFINER).  The result
\* is the set of leaderboards it may leave; the empty set is a raised error.
update_leaderboard(session, lb, projs, asgs, atts, quizTable, target_user_id) ==
    LET row == EntryFor(projs, asgs, atts, quizTable, target_user_id)
        ups == UpsertEntry(lb, row)
    IN  IF ~LeaderboardWriteAllowed(session, row) THEN {}
        ELSE { UpdateRanks(ups, r) : r \in ranked_users(ups) }

\* refresh_user_leaderboard(user_id): the same computation, called directly
refresh_user_leaderboard(session, lb, projs, asgs, atts, quizTable, user_id) ==
    LET row == EntryFor(projs, asgs, atts, quizTable, user_id)
        ups == UpsertEntry(lb, row)
    IN  IF ~LeaderboardWriteAllowed(session, row) THEN {}
        ELSE { UpdateRanks(ups, r) : r \in ranked_users(ups) }

\* DELETE FROM leaderboard: the rows the session's DELETE policy lets it see
\* are removed; a row it may not delete is skipped without an error
DeleteAllEntries(session, lb) ==
    { e \in lb : ~(BypassRLS(session) \/ leaderboard_delete_policy(session, e)) }

RECURSIVE refresh_each(_, _, _, _, _, _, _)
\* FOR user_record IN SELECT id FROM users WHERE role = 'student' LOOP
\*   PERFORM refresh_user_leaderboard(user_record.id): the leaderboards the
\* loop may leave from any of the leaderboards lbs; an error in one call
\* leaves none
refresh_each(session, lbs, projs, asgs, atts, quizTable, ids) ==
    IF ids = {} \/ lbs = {} THEN lbs
    ELSE LET u    == CHOOSE x \in ids : TRUE
             step == UNION { refresh_user_leaderboard(session, lb, projs, asgs, atts,
                                                      quizTable, u) : lb \in lbs }
         IN  refresh_each(session, step, projs, asgs, atts, quizTable, ids \ {u})

\* "Users can view their own profile", "Admins can view all users"
users_select_policy(session, userTable, uid) ==
    \/ uid = session
    \/ session \in DOMAIN userTable /\ userTable[session] = "admin"

\* SELECT id FROM users WHERE role = 'student', as the session sees users
VisibleStudents(session, userTable) ==
    { u \in DOMAIN userTable :
        /\ userTable[u] = "student"
        /\ BypassRLS(session) \/ users_select_policy(session, userTable, u) }

\* refresh_all_leaderboard()
refresh_all_leaderboard(session, lb, userTable, projs, asgs, atts, quizTable) ==
    refresh_each(session, {DeleteAllEntries(session, lb)}, projs, asgs, atts, quizTable,
                 VisibleStudents(session, userTable))

(***************************************************************************)
(* Triggers: AFTER INSERT OR UPDATE ... FOR EACH ROW on the three source   *)
(* relations.  Each takes the relations as the statement left them and     *)
(* gives the leaderboards the trigger may leave (empty: an error raised).  *)
(***************************************************************************)
trigger_update_leaderboard_projects(session, lb, projs, NEWROW) ==
    update_leaderboard(session, lb, projs, assignments, quiz_attempts, quizzes,
                       NEWROW.owner_id)

trigger_update_leaderboard_quiz_attempts(session, lb, atts, NEWROW) ==
    update_leaderboard(session, lb, projects, assignments, atts, quizzes,
                       NEWROW.student_id)

trigger_update_leaderboard_assignments(session, lb, asgs, NEWROW) ==
    update_leaderboard(session, lb, projects, asgs, quiz_attempts, quizzes,
                       NEWROW.student_id)

\* AFTER UPDATE ... WHEN (OLD.submission_url IS NULL AND NEW.submission_url
\* IS NOT NULL): a second run of the same function on that update
trigger_update_leaderboard_assignment_submission(session, lb, asgs, OLDROW, NEWROW) ==
    IF OLDROW.submission_url = NULL /\ NEWROW.submission_url # NULL
    THEN update_leaderboard(session, lb, projects, asgs, quiz_attempts, quizzes,
                            NEWROW.student_id)
    ELSE {lb}

\* both triggers of an UPDATE on assignments, one after the other
assignments_update_triggers(session, lb, asgs, OLDROW, NEWROW) ==
    UNION { trigger_update_leaderboard_assignment_submission(session, lb1, asgs, OLDROW, NEWROW) :
              lb1 \in trigger_update_leaderboard_assignments(session, lb, asgs, NEWROW) }

(***************************************************************************)
(* Outcome of a statement.  denied: a policy of the relation the statement *)
(* names refused it; aborted: a trigger raised an error and the statement  *)
(* was rolled back; committed: the statement and its triggers took effect, *)
(* user naming the user the recomputation was run for.                     *)
(***************************************************************************)
(***************************************************************************)
(* The AI call wrapper of src/lib/geminiClient.js and the grading call of  *)
(* src/lib/api.js, as the feature notes and the specification describe     *)
(* them: a limiter shared by the process, up to three attempts per call    *)
(* with a wait that doubles between them, a time limit per attempt, and    *)
(* the basic score as the fallback of grading.  Time is counted in seconds *)
(* since the event it is measured from.                                    *)
(***************************************************************************)
\* requests that run in one client process
Reqs == {"r1", "r2"}

\* seconds between two outbound calls
MIN_INTERVAL == 1

\* attempts of one call
MAX_ATTEMPTS == 3

\* seconds an attempt may take
TIMEOUT == 30

\* seconds waited after the first failed attempt
BACKOFF_BASE == 1

\* what an attempt may end with, other than running out of time
Outcomes == {"ok", "http_error", "malformed"}

\* the input of a request that has not been made
NoInput == <<"none", <<>>>>

NoGrading ==
    [aiGrading |-> FALSE, basicScore |-> 0, correctAnswers |-> 0, totalQuestions |-> 0]

\* questions of a generated quiz
QUIZ_SIZE == 5

\* a question record as generateQuiz returns it
Question ==
    [question |-> "q", options |-> <<"a", "b">>, correctIndex |-> 0, explanation |-> "e"]

\* items the provider may send in place of a question record
NoIndexItem == [question |-> "q", options |-> <<"a", "b">>]

NoOptionsItem == [question |-> "q", correctIndex |-> 0]

\* no response body: the attempt has not ended or ended without one
NoPayload == [status |-> 0, json |-> FALSE, items |-> <<>>]

\* the responses of the provider to a quiz generation attempt: the status,
\* whether the body parses as JSON, and the items parsed from it
Payloads ==
    { [status |-> 500, json |-> FALSE, items |-> <<>>],
      [status |-> 200, json |-> FALSE, items |-> <<>>],
      [status |-> 200, json |-> TRUE,  items |-> [i \in 1..5 |-> Question]],
      [status |-> 200, json |-> TRUE,  items |-> [i \in 1..4 |-> Question]],
      [status |-> 200, json |-> TRUE,  items |-> [i \in 1..6 |-> Question]],
      [status |-> 200, json |-> TRUE,
       items |-> [i \in 1..5 |-> IF i = 3 THEN NoIndexItem ELSE Question]],
      [status |-> 200, json |-> TRUE,
       items |-> [i \in 1..5 |-> IF i = 5 THEN NoOptionsItem ELSE Question]] }

IdleReq ==
    [pc |-> "idle", kind |-> "none", attempts |-> 0, failed |-> 0, elapsed |-> 0,
     input |-> NoInput, result |-> "none", grading |-> NoGrading,
     raw |-> NoPayload, questions |-> <<>>]

\* a variant that lets every call out at once
rateLimit_no_wait(sinceLast) == TRUE

\* the limiter: may a call go out now, sinceLast seconds after the last one
rateLimit(sinceLast) == sinceLast >= MIN_INTERVAL

\* a variant that allows one attempt more
shouldRetry_one_more(attempts) == attempts <= MAX_ATTEMPTS

\* is another attempt made after a failed one
shouldRetry(attempts) == attempts < MAX_ATTEMPTS

RECURSIVE Pow2(_)
Pow2(n) == IF n = 0 THEN 1 ELSE 2 * Pow2(n - 1)

\* seconds waited after the k-th failed attempt
Backoff(k) == BACKOFF_BASE * Pow2(k - 1)

\* submitted answers that equal the correct index at the same position
basicScore(answers, questions) ==
    Cardinality({ i \in 1..Len(answers) :
                    i <= Len(questions) /\ answers[i] = questions[i] })

\* a variant that has a score only when the AI grading succeeded
submitQuizWithGrading_no_fallback(input, result) ==
    LET questions == QuizBank[input[1]]
        score     == IF result = "success" THEN basicScore(input[2], questions) ELSE 0
    IN  [aiGrading |-> result = "success", basicScore |-> score,
         correctAnswers |-> score, totalQuestions |-> Len(questions)]

\* the result of quizAttemptApi.submitQuizWithGrading, without the attempt row
submitQuizWithGrading(input, result) ==
    LET questions == QuizBank[input[1]]
        score     == basicScore(input[2], questions)
    IN  [aiGrading |-> result = "success", basicScore |-> score,
         correctAnswers |-> score, totalQuestions |-> Len(questions)]

\* a variant that accepts any number of items
validateQuiz_any_length(payload) ==
    /\ payload.status = 200
    /\ payload.json
    /\ \A i \in 1..Len(payload.items) :
          {"question", "options", "correctIndex"} \subseteq DOMAIN payload.items[i]

\* the validation of a quiz generation response: it parses as JSON and holds
\* 5 items, each with a question, an options sequence and a correct index
validateQuiz(payload) ==
    /\ payload.status = 200
    /\ payload.json
    /\ Len(payload.items) = QUIZ_SIZE
    /\ \A i \in 1..Len(payload.items) :
          {"question", "options", "correctIndex"} \subseteq DOMAIN payload.items[i]

\* the requests the gemini-proxy function handles beside each other
Handlers == {"h1", "h2"}

\* a request: its method, whether it has an Authorization header, and
\* whether its body parses as JSON
Requests == [method : {"OPTIONS", "POST"}, authHeader : BOOLEAN, json : BOOLEAN]

\* how supabaseClient.auth.getUser() may end: with a user, with an error or
\* no user, or with an exception
GetUserOutcomes == {"user", "error", "throws"}

\* how the call of the generation API may end: with a JSON body, with a body
\* that response.json() rejects, or with an exception of fetch
FetchOutcomes == {"json", "not json", "throws"}

NoRequest == [method |-> "none", authHeader |-> FALSE, json |-> FALSE]

NoResponse == [status |-> 0, body |-> "none"]

\* a handler that has no request
IdleHandler ==
    [pc |-> "idle", req |-> NoRequest, user |-> "unknown", upstream |-> 0,
     threw |-> FALSE, response |-> NoResponse]

\* new Response('ok', { headers: corsHeaders })
OkResponse == [status |-> 200, body |-> "ok"]

\* new Response('Unauthorized', { status: 401, headers: corsHeaders })
Unauthorized == [status |-> 401, body |-> "Unauthorized"]

\* new Response(JSON.stringify(data), ...)
DataResponse == [status |-> 200, body |-> "data"]

\* catch (error): new Response(JSON.stringify({ error: error.message }), { status: 500 })
ErrorResponse == [status |-> 500, body |-> "error"]

\* the transactions that run beside each other in the runs of SpecTxn
Txns == {"t1", "t2"}

\* a transaction that has not begun
IdleTxn == [pc |-> "idle", row |-> NULL, entry |-> NULL, ranks |-> NULL, wlb |-> {}]

Refused(how) ==
    /\ lastOp' = [outcome |-> how, user |-> NULL]
    /\ UNCHANGED <<users, quizzes, projects, assignments, quiz_attempts, leaderboard,
                   txns, ai, proxy>>

Committed(uid) ==
    /\ lastOp' = [outcome |-> "committed", user |-> uid]
    /\ UNCHANGED <<txns, ai, proxy>>

(***************************************************************************)
(* Statements on projects.                                                 *)
(***************************************************************************)
InsertProject(session, owner, verified, tags) ==
    /\ RowCount < MaxRows
    /\ LET NEWROW   == [id |-> FreshId(projects), owner_id |-> owner,
                     verified |-> verified, tags |-> tags]
           projs == projects \cup {NEWROW}
           outs  == trigger_update_leaderboard_projects(session, leaderboard, projs, NEWROW)
       IN  IF ~(BypassRLS(session) \/ projects_insert_policy(session, NEWROW))
           THEN Refused("denied")
           ELSE IF outs = {}
           THEN Refused("aborted")
           ELSE /\ projects' = projs
                /\ leaderboard' \in outs
                /\ Committed(NEWROW.owner_id)
                /\ UNCHANGED <<users, quizzes, assignments, quiz_attempts>>

UpdateProject(session, OLDROW, owner, verified, tags) ==
    /\ OLDROW \in projects
    /\ LET NEWROW   == [id |-> OLDROW.id, owner_id |-> owner,
                     verified |-> verified, tags |-> tags]
           projs == (projects \ {OLDROW}) \cup {NEWROW}
           outs  == trigger_update_leaderboard_projects(session, leaderboard, projs, NEWROW)
       IN  IF ~(BypassRLS(session) \/ projects_update_policy(session, OLDROW, NEWROW))
           THEN Refused("denied")
           ELSE IF outs = {}
           THEN Refused("aborted")
           ELSE /\ projects' = projs
                /\ leaderboard' \in outs
                /\ Committed(NEWROW.owner_id)
                /\ UNCHANGED <<users, quizzes, assignments, quiz_attempts>>

(***************************************************************************)
(* Statements on assignments.                                              *)
(***************************************************************************)
InsertAssignment(session, student, url) ==
    /\ RowCount < MaxRows
    /\ LET NEWROW  == [id |-> FreshId(assignments), student_id |-> student,
                    submission_url |-> url]
           asgs == assignments \cup {NEWROW}
           outs == trigger_update_leaderboard_assignments(session, leaderboard, asgs, NEWROW)
       IN  IF ~(BypassRLS(session) \/ assignments_insert_policy(session, NEWROW))
           THEN Refused("denied")
           ELSE IF outs = {}
           THEN Refused("aborted")
           ELSE /\ assignments' = asgs
                /\ leaderboard' \in outs
                /\ Committed(NEWROW.student_id)
                /\ UNCHANGED <<users, quizzes, projects, quiz_attempts>>

UpdateAssignment(session, OLDROW, student, url) ==
    /\ OLDROW \in assignments
    /\ LET NEWROW  == [id |-> OLDROW.id, student_id |-> student, submission_url |-> url]
           asgs == (assignments \ {OLDROW}) \cup {NEWROW}
           outs == assignments_update_triggers(session, leaderboard, asgs, OLDROW, NEWROW)
       IN  IF ~(BypassRLS(session) \/ assignments_update_policy(session, OLDROW, NEWROW))
           THEN Refused("denied")
           ELSE IF outs = {}
           THEN Refused("aborted")
           ELSE /\ assignments' = asgs
                /\ leaderboard' \in outs
                /\ Committed(NEWROW.student_id)
                /\ UNCHANGED <<users, quizzes, projects, quiz_attempts>>

(***************************************************************************)
(* Statements on quiz_attempts.                                            *)
(***************************************************************************)
InsertQuizAttempt(session, quiz, student, answers, completed) ==
    /\ RowCount < MaxRows
    /\ LET NEWROW  == [id |-> FreshId(quiz_attempts), quiz_id |-> quiz,
                    student_id |-> student, answers |-> answers,
                    completed_at |-> completed]
           atts == quiz_attempts \cup {NEWROW}
           outs == trigger_update_leaderboard_quiz_attempts(session, leaderboard, atts, NEWROW)
       IN  IF ~(BypassRLS(session) \/ quiz_attempts_insert_policy(session, NEWROW))
           THEN Refused("denied")
           ELSE IF outs = {}
           THEN Refused("aborted")
           ELSE /\ quiz_attempts' = atts
                /\ leaderboard' \in outs
                /\ Committed(NEWROW.student_id)
                /\ UNCHANGED <<users, quizzes, projects, assignments>>

UpdateQuizAttempt(session, OLDROW, quiz, student, answers, completed) ==
    /\ OLDROW \in quiz_attempts
    /\ LET NEWROW  == [id |-> OLDROW.id, quiz_id |-> quiz, student_id |-> student,
                    answers |-> answers, completed_at |-> completed]
           atts == (quiz_attempts \ {OLDROW}) \cup {NEWROW}
           outs == trigger_update_leaderboard_quiz_attempts(session, leaderboard, atts, NEWROW)
       IN  IF ~(BypassRLS(session) \/ quiz_attempts_update_policy(session, OLDROW, NEWROW))
           THEN Refused("denied")
           ELSE IF outs = {}
           THEN Refused("aborted")
           ELSE /\ quiz_attempts' = atts
                /\ leaderboard' \in outs
                /\ Committed(NEWROW.student_id)
                /\ UNCHANGED <<users, quizzes, projects, assignments>>

(***************************************************************************)
(* Statements a client issues on the leaderboard itself, and the direct    *)
(* call of refresh_user_leaderboard.                                       *)
(***************************************************************************)
InsertLeaderboard(session, row) ==
    /\ session \in Clients
    /\ \A e \in leaderboard : e.user_id # row.user_id
    /\ IF ~(BypassRLS(session) \/ leaderboard_insert_policy(session, row))
       THEN Refused("denied")
       ELSE /\ leaderboard' = leaderboard \cup {row}
            /\ Committed(row.user_id)
            /\ UNCHANGED <<users, quizzes, projects, assignments, quiz_attempts>>

UpdateLeaderboard(session, OLDROW, total) ==
    /\ session \in Clients
    /\ OLDROW \in leaderboard
    /\ IF ~(BypassRLS(session) \/ leaderboard_update_policy(session, OLDROW))
       THEN Refused("denied")
       ELSE /\ leaderboard' = (leaderboard \ {OLDROW}) \cup {[OLDROW EXCEPT !.total_points = total]}
            /\ Committed(OLDROW.user_id)
            /\ UNCHANGED <<users, quizzes, projects, assignments, quiz_attempts>>

DeleteLeaderboard(session, OLDROW) ==
    /\ session \in Clients
    /\ OLDROW \in leaderboard
    /\ IF ~(BypassRLS(session) \/ leaderboard_delete_policy(session, OLDROW))
       THEN Refused("denied")
       ELSE /\ leaderboard' = leaderboard \ {OLDROW}
            /\ Committed(OLDROW.user_id)
            /\ UNCHANGED <<users, quizzes, projects, assignments, quiz_attempts>>

RefreshUserLeaderboard(session, uid) ==
    LET outs == refresh_user_leaderboard(session, leaderboard, projects, assignments,
                                         quiz_attempts, quizzes, uid)
    IN  IF outs = {}
        THEN Refused("aborted")
        ELSE /\ leaderboard' \in outs
             /\ Committed(uid)
             /\ UNCHANGED <<users, quizzes, projects, assignments, quiz_attempts>>

\* lastOp.user of a statement that recomputed every student
AllStudents == "all students"

\* lastOp.user of a refresh_all_leaderboard whose loop did not see every student
SomeStudents == "some students"

RefreshAllLeaderboard(session) ==
    LET outs == refresh_all_leaderboard(session, leaderboard, users, projects,
                                        assignments, quiz_attempts, quizzes)
    IN  IF outs = {}
        THEN Refused("aborted")
        ELSE /\ leaderboard' \in outs
             /\ Committed(IF VisibleStudents(session, users)
                               = VisibleStudents(Service, users)
                          THEN AllStudents ELSE SomeStudents)
             /\ UNCHANGED <<users, quizzes, projects, assignments, quiz_attempts>>

(***************************************************************************)
(* The state machine.                                                      *)
(***************************************************************************)
Init ==
    /\ users = [u \in UserIds |-> IF u = "u3" THEN "mentor" ELSE "student"]
    /\ quizzes = QuizBank
    /\ projects = {}
    /\ assignments = {}
    /\ quiz_attempts = {}
    /\ leaderboard = {}
    /\ lastOp = [outcome |-> "committed", user |-> NULL]
    /\ txns = [t \in Txns |-> IdleTxn]
    /\ ai = [sinceLast |-> MIN_INTERVAL, reqs |-> [r \in Reqs |-> IdleReq]]
    /\ proxy = [p \in Handlers |-> IdleHandler]

\* a row a client may try to put into the leaderboard
ForgedEntry(uid) ==
    [user_id |-> uid, total_points |-> 1000,
     breakdown |-> [quizzes |-> 1000, assignments |-> 0, projects |-> 0, challenges |-> 0],
     rank |-> 1]

\* the new values an UPDATE of a project may set: at most one column changes
ProjectUpdates(p) ==
    { n \in [owner_id : Owners, verified : BOOLEAN, tags : TagSets] :
        Cardinality({ c \in {"owner_id", "verified", "tags"} : n[c] # p[c] }) <= 1 }

\* the new values an UPDATE of an assignment may set
AssignmentUpdates(a) ==
    { n \in [student_id : Owners, submission_url : {NULL, "url"}] :
        Cardinality({ c \in {"student_id", "submission_url"} : n[c] # a[c] }) <= 1 }

\* an attempt stays with the student who took it: an UPDATE sets the quiz and
\* answers, or completed_at
QuizAttemptUpdates(qa) ==
    { n \in [student_id : {qa.student_id}, input : AttemptInputs,
              completed_at : {NULL, "t"}] :
        (IF n.completed_at # qa.completed_at THEN 1 ELSE 0)
          + (IF n.input # <<qa.quiz_id, qa.answers>> THEN 1 ELSE 0) <= 1 }

Next ==
    \/ \E s \in Sessions, o \in Owners, v \in BOOLEAN, t \in TagSets :
          InsertProject(s, o, v, t)
    \/ \E s \in Sessions, p \in projects : \E n \in ProjectUpdates(p) :
          UpdateProject(s, p, n.owner_id, n.verified, n.tags)
    \/ \E s \in Sessions, o \in Owners, url \in {NULL, "url"} :
          InsertAssignment(s, o, url)
    \/ \E s \in Sessions, a \in assignments : \E n \in AssignmentUpdates(a) :
          UpdateAssignment(s, a, n.student_id, n.submission_url)
    \/ \E s \in Sessions, i \in AttemptInputs, o \in Owners, c \in {NULL, "t"} :
          InsertQuizAttempt(s, i[1], o, i[2], c)
    \/ \E s \in Sessions, qa \in quiz_attempts : \E n \in QuizAttemptUpdates(qa) :
          UpdateQuizAttempt(s, qa, n.input[1], n.student_id, n.input[2], n.completed_at)
    \/ \E s \in Clients, u \in Owners : InsertLeaderboard(s, ForgedEntry(u))
    \/ \E s \in Clients, e \in leaderboard : UpdateLeaderboard(s, e, 1000)
    \/ \E s \in Clients, e \in leaderboard : DeleteLeaderboard(s, e)
    \/ \E s \in Sessions, u \in Owners : RefreshUserLeaderboard(s, u)
    \/ \E s \in Sessions : RefreshAllLeaderboard(s)

Spec == Init /\ [][Next]_vars

(***************************************************************************)
(* Deletion of a user, and the runs in which users of every role own rows  *)
(* and may be deleted.                                                     *)
(***************************************************************************)
\* users has no DELETE policy: with RLS enabled a client's DELETE sees no row
users_delete_policy(session, uid) == FALSE

\* DELETE FROM users WHERE id = uid: the rows that reference the user are
\* removed with it (ON DELETE CASCADE); no trigger of the leaderboard fires
DeleteUser(session, uid) ==
    /\ uid \in DOMAIN users
    /\ IF ~(BypassRLS(session) \/ users_delete_policy(session, uid))
       THEN Refused("denied")
       ELSE /\ users' = [u \in DOMAIN users \ {uid} |-> users[u]]
            /\ projects' = { p \in projects : p.owner_id # uid }
            /\ assignments' = { a \in assignments : a.student_id # uid }
            /\ quiz_attempts' = { qa \in quiz_attempts : qa.student_id # uid }
            /\ leaderboard' = { e \in leaderboard : e.user_id # uid }
            /\ Committed(NULL)
            /\ UNCHANGED quizzes

\* statements of the exempt session on rows of any user, mentor included,
\* next to refresh_all_leaderboard and the deletion of users
NextUsers ==
    \/ \E o \in DOMAIN users, v \in BOOLEAN :
          InsertProject(Service, o, v, {})
    \/ \E o \in DOMAIN users : InsertAssignment(Service, o, "url")
    \/ \E s \in Sessions, u \in DOMAIN users : DeleteUser(s, u)
    \/ \E u \in DOMAIN users : RefreshUserLeaderboard(Service, u)
    \/ \E s \in Sessions : RefreshAllLeaderboard(s)

SpecUsers == Init /\ [][NextUsers]_vars

(***************************************************************************)
(* Deletion of source rows and edits of a quiz.  No policy of projects,    *)
(* assignments or quiz_attempts is FOR DELETE and none of quizzes is FOR   *)
(* UPDATE, so these statements change rows only in the exempt session; the *)
(* triggers of the leaderboard are AFTER INSERT OR UPDATE on the three     *)
(* source tables, so none of them fires here.                              *)
(***************************************************************************)
projects_delete_policy(session, OLDROW) == FALSE

assignments_delete_policy(session, OLDROW) == FALSE

quiz_attempts_delete_policy(session, OLDROW) == FALSE

quizzes_update_policy(session, quiz) == FALSE

DeleteProject(session, OLDROW) ==
    /\ OLDROW \in projects
    /\ IF ~(BypassRLS(session) \/ projects_delete_policy(session, OLDROW))
       THEN Refused("denied")
       ELSE /\ projects' = projects \ {OLDROW}
            /\ Committed(NULL)
            /\ UNCHANGED <<users, quizzes, assignments, quiz_attempts, leaderboard>>

DeleteAssignment(session, OLDROW) ==
    /\ OLDROW \in assignments
    /\ IF ~(BypassRLS(session) \/ assignments_delete_policy(session, OLDROW))
       THEN Refused("denied")
       ELSE /\ assignments' = assignments \ {OLDROW}
            /\ Committed(NULL)
            /\ UNCHANGED <<users, quizzes, projects, quiz_attempts, leaderboard>>

DeleteQuizAttempt(session, OLDROW) ==
    /\ OLDROW \in quiz_attempts
    /\ IF ~(BypassRLS(session) \/ quiz_attempts_delete_policy(session, OLDROW))
       THEN Refused("denied")
       ELSE /\ quiz_attempts' = quiz_attempts \ {OLDROW}
            /\ Committed(NULL)
            /\ UNCHANGED <<users, quizzes, projects, assignments, leaderboard>>

\* the question lists an edit may give a quiz: the one it was created with,
\* that one with another correct index for its last question, and that one
\* without its last question
QuizEdits(quiz) ==
    LET qs == QuizBank[quiz]
        n  == Len(qs)
    IN  { qs, [qs EXCEPT ![n] = (@ + 1) % 4], SubSeq(qs, 1, n - 1) }

\* UPDATE quizzes SET questions = ... WHERE id = quiz
UpdateQuiz(session, quiz, questions) ==
    /\ quiz \in DOMAIN quizzes
    /\ questions # quizzes[quiz]
    /\ IF ~(BypassRLS(session) \/ quizzes_update_policy(session, quiz))
       THEN Refused("denied")
       ELSE /\ quizzes' = [quizzes EXCEPT ![quiz] = questions]
            /\ Committed(NULL)
            /\ UNCHANGED <<users, projects, assignments, quiz_attempts, leaderboard>>

\* statements that write, delete and recompute, next to edits of the quizzes
\* that have an attempt
NextRows ==
    \/ InsertProject(Service, "u1", TRUE, {})
    \/ InsertAssignment(Service, "u1", "url")
    \/ \E i \in AttemptInputs : InsertQuizAttempt(Service, i[1], "u1", i[2], "t")
    \/ \E s \in Sessions, p \in projects : DeleteProject(s, p)
    \/ \E s \in Sessions, a \in assignments : DeleteAssignment(s, a)
    \/ \E s \in Sessions, qa \in quiz_attempts : DeleteQuizAttempt(s, qa)
    \/ \E s \in Sessions, qa \in quiz_attempts : \E n \in QuizEdits(qa.quiz_id) :
          UpdateQuiz(s, qa.quiz_id, n)
    \/ \E u \in Owners : RefreshUserLeaderboard(Service, u)

SpecRows == Init /\ [][NextRows]_vars

(***************************************************************************)
(* Updates of the profile row.  The policy "Users can update their own     *)
(* profile" names no column, the grants are on whole tables, and the only  *)
(* trigger of users sets updated_at.                                       *)
(***************************************************************************)
\* role TEXT NOT NULL CHECK (role IN (...))
Roles == {"student", "mentor", "company", "admin", "banned"}

\* "Users can update their own profile": UPDATE USING (auth.uid() = auth_uid)
users_update_policy(session, uid) == uid = session

\* UPDATE users SET role = role WHERE id = uid
UpdateUserRole(session, uid, role) ==
    /\ uid \in DOMAIN users
    /\ role \in Roles
    /\ role # users[uid]
    /\ IF ~(BypassRLS(session) \/ users_update_policy(session, uid))
       THEN Refused("denied")
       ELSE /\ users' = [users EXCEPT ![uid] = role]
            /\ Committed(NULL)
            /\ UNCHANGED <<quizzes, projects, assignments, quiz_attempts, leaderboard>>

\* the clients update profile rows; the exempt session writes projects, and
\* any session calls refresh_all_leaderboard
NextProfiles ==
    \/ \E c \in Clients, u \in DOMAIN users, r \in Roles : UpdateUserRole(c, u, r)
    \/ \E o \in Owners : InsertProject(Service, o, TRUE, {})
    \/ \E s \in Sessions : RefreshAllLeaderboard(s)

SpecProfiles == Init /\ [][NextProfiles]_vars

(***************************************************************************)
(* Statements of transactions that run beside each other, at the default   *)
(* isolation level (READ COMMITTED): a statement reads the rows committed  *)
(* when it starts and the rows its own transaction wrote; a row written by *)
(* a transaction stays locked until that transaction ends, and a statement *)
(* that is to write a locked row waits.  The steps of one transaction are  *)
(* the INSERT of a project and the statements of update_leaderboard that   *)
(* its trigger runs; the four calculate_*_points calls read together.      *)
(***************************************************************************)
\* source rows written by transactions that have not ended
PendingRows == { txns[t].row : t \in { x \in Txns : txns[x].pc # "idle" } }

\* users whose leaderboard row another transaction has written
LockedByOthers(t) == { e.user_id : e \in UNION { txns[o].wlb : o \in Txns \ {t} } }

\* what a statement of transaction t reads
TxnProjects(t) ==
    projects \cup (IF txns[t].pc # "idle" THEN {txns[t].row} ELSE {})

TxnLeaderboard(t) ==
    { e \in leaderboard : \A w \in txns[t].wlb : w.user_id # e.user_id }
      \cup txns[t].wlb

\* INSERT INTO projects inside transaction t
TxnInsertProject(t, owner, verified, tags) ==
    /\ txns[t].pc = "idle"
    /\ RowCount + Cardinality(PendingRows) < MaxRows
    /\ LET NEWROW == [id |-> FreshId(projects \cup PendingRows), owner_id |-> owner,
                      verified |-> verified, tags |-> tags]
       IN  txns' = [txns EXCEPT ![t] = [IdleTxn EXCEPT !.pc = "written", !.row = NEWROW]]
    /\ UNCHANGED <<users, quizzes, projects, assignments, quiz_attempts, leaderboard, lastOp, ai,
                   proxy>>

\* the trigger's calculate_*_points calls and the sum
TxnCompute(t) ==
    /\ txns[t].pc = "written"
    /\ txns' = [txns EXCEPT ![t].pc = "computed",
                            ![t].entry = EntryFor(TxnProjects(t), assignments, quiz_attempts,
                                                  quizzes, txns[t].row.owner_id)]
    /\ UNCHANGED <<users, quizzes, projects, assignments, quiz_attempts, leaderboard, lastOp, ai,
                   proxy>>

\* INSERT ... ON CONFLICT (user_id) DO UPDATE with the values computed before:
\* waits while another transaction holds the user's row, then writes over the
\* row as committed
TxnUpsert(t) ==
    /\ txns[t].pc = "computed"
    /\ txns[t].entry.user_id \notin LockedByOthers(t)
    /\ txns' = [txns EXCEPT ![t].pc = "upserted",
                            ![t].wlb = { e \in UpsertEntry(leaderboard, txns[t].entry) :
                                           e.user_id = txns[t].entry.user_id }]
    /\ UNCHANGED <<users, quizzes, projects, assignments, quiz_attempts, leaderboard, lastOp, ai,
                   proxy>>

\* WITH ranked_users AS (SELECT ... FROM leaderboard): the rank statement reads
TxnRankRead(t) ==
    /\ txns[t].pc = "upserted"
    /\ \E r \in ranked_users(TxnLeaderboard(t)) :
          txns' = [txns EXCEPT ![t].pc = "ranking", ![t].ranks = r]
    /\ UNCHANGED <<users, quizzes, projects, assignments, quiz_attempts, leaderboard, lastOp, ai,
                   proxy>>

\* UPDATE leaderboard SET rank = new_rank: waits for the rows it read that
\* another transaction holds, then writes the ranks it read into them
TxnRankWrite(t) ==
    /\ txns[t].pc = "ranking"
    /\ DOMAIN txns[t].ranks \cap LockedByOthers(t) = {}
    /\ txns' = [txns EXCEPT ![t].pc = "ranked",
                            ![t].wlb = { [e EXCEPT !.rank = txns[t].ranks[e.user_id]] :
                                           e \in { x \in TxnLeaderboard(t) :
                                                     x.user_id \in DOMAIN txns[t].ranks } }]
    /\ UNCHANGED <<users, quizzes, projects, assignments, quiz_attempts, leaderboard, lastOp, ai,
                   proxy>>

\* COMMIT
TxnCommit(t) ==
    /\ txns[t].pc = "ranked"
    /\ projects' = projects \cup {txns[t].row}
    /\ leaderboard' = TxnLeaderboard(t)
    /\ lastOp' = [outcome |-> "committed", user |-> txns[t].row.owner_id]
    /\ txns' = [txns EXCEPT ![t] = IdleTxn]
    /\ UNCHANGED <<users, quizzes, assignments, quiz_attempts, ai, proxy>>

\* transaction t waits for a row that transaction o holds
WaitsFor(t, o) ==
    LET held == { e.user_id : e \in txns[o].wlb }
    IN  \/ txns[t].pc = "computed" /\ txns[t].entry.user_id \in held
        \/ txns[t].pc = "ranking" /\ DOMAIN txns[t].ranks \cap held # {}

\* two transactions that wait for each other: one is rolled back
TxnDeadlock(t) ==
    /\ \E o \in Txns \ {t} : WaitsFor(t, o) /\ WaitsFor(o, t)
    /\ txns' = [txns EXCEPT ![t] = IdleTxn]
    /\ lastOp' = [outcome |-> "aborted", user |-> NULL]
    /\ UNCHANGED <<users, quizzes, projects, assignments, quiz_attempts, leaderboard, ai,
                   proxy>>

AllIdle == \A t \in Txns : txns[t].pc = "idle"

NextTxn ==
    \/ \E t \in Txns, o \in Owners, v \in BOOLEAN, g \in TagSets :
          TxnInsertProject(t, o, v, g)
    \/ \E t \in Txns : TxnCompute(t)
    \/ \E t \in Txns : TxnUpsert(t)
    \/ \E t \in Txns : TxnRankRead(t)
    \/ \E t \in Txns : TxnRankWrite(t)
    \/ \E t \in Txns : TxnCommit(t)
    \/ \E t \in Txns : TxnDeadlock(t)
    \/ AllIdle /\ RefreshAllLeaderboard(Service)

SpecTxn == Init /\ [][NextTxn]_vars

(***************************************************************************)
(* Steps of the AI call wrapper.                                           *)
(***************************************************************************)
DbUnchanged ==
    UNCHANGED <<users, quizzes, projects, assignments, quiz_attempts, leaderboard,
                lastOp, txns, proxy>>

\* a grading call is made with the answers of an attempt
StartCall(r, input) ==
    /\ ai.reqs[r].pc \in {"idle", "done"}
    /\ ai' = [ai EXCEPT !.reqs[r] = [IdleReq EXCEPT !.pc = "limited", !.kind = "grading",
                                                    !.input = input]]
    /\ DbUnchanged

\* a quiz generation call is made
generateQuiz(r) ==
    /\ ai.reqs[r].pc \in {"idle", "done"}
    /\ ai' = [ai EXCEPT !.reqs[r] = [IdleReq EXCEPT !.pc = "limited", !.kind = "quiz"]]
    /\ DbUnchanged

\* a variant that does not record when the call went out
IssueCall_no_stamp(r) ==
    /\ ai.reqs[r].pc = "limited"
    /\ rateLimit(ai.sinceLast)
    /\ ai' = [ai EXCEPT !.reqs[r].pc = "inflight",
                        !.reqs[r].attempts = @ + 1,
                        !.reqs[r].elapsed = 0,
                        !.reqs[r].raw = NoPayload]
    /\ DbUnchanged

\* the limiter lets the attempt out
IssueCall(r) ==
    /\ ai.reqs[r].pc = "limited"
    /\ rateLimit(ai.sinceLast)
    /\ ai' = [ai EXCEPT !.sinceLast = 0,
                        !.reqs[r].pc = "inflight",
                        !.reqs[r].attempts = @ + 1,
                        !.reqs[r].elapsed = 0,
                        !.reqs[r].raw = NoPayload]
    /\ DbUnchanged

\* the state of a request whose attempt ended with outcome
AttemptEnds(req, outcome) ==
    LET graded(result) == IF req.kind = "grading"
                          THEN submitQuizWithGrading(req.input, result)
                          ELSE NoGrading
    IN  IF outcome = "ok"
        THEN [req EXCEPT !.pc = "done", !.result = "success", !.elapsed = 0,
                         !.grading = graded("success")]
        ELSE IF shouldRetry(req.attempts)
        THEN [req EXCEPT !.pc = "backoff", !.failed = @ + 1, !.elapsed = 0]
        ELSE [req EXCEPT !.pc = "done", !.failed = @ + 1, !.result = "failure",
                         !.elapsed = 0, !.grading = graded("failure")]

\* the provider answers a grading attempt within the time limit
Respond(r, outcome) ==
    /\ ai.reqs[r].pc = "inflight"
    /\ ai.reqs[r].kind = "grading"
    /\ ai.reqs[r].elapsed < TIMEOUT
    /\ ai' = [ai EXCEPT !.reqs[r] = AttemptEnds(ai.reqs[r], outcome)]
    /\ DbUnchanged

\* the provider answers a quiz generation attempt within the time limit; the
\* body is validated, and the questions are returned only when it is valid
QuizResponse(r, payload) ==
    /\ ai.reqs[r].pc = "inflight"
    /\ ai.reqs[r].kind = "quiz"
    /\ ai.reqs[r].elapsed < TIMEOUT
    /\ LET valid == validateQuiz(payload)
           ended == AttemptEnds(ai.reqs[r], IF valid THEN "ok" ELSE "malformed")
       IN  ai' = [ai EXCEPT !.reqs[r] =
                     [ended EXCEPT !.raw = payload,
                                   !.questions = IF valid THEN payload.items ELSE <<>>]]
    /\ DbUnchanged

\* the time limit of the attempt passes
AttemptTimeout(r) ==
    /\ ai.reqs[r].pc = "inflight"
    /\ ai.reqs[r].elapsed >= TIMEOUT
    /\ ai' = [ai EXCEPT !.reqs[r] = AttemptEnds(ai.reqs[r], "timeout")]
    /\ DbUnchanged

\* a variant whose wait is over only after more than the time it measures
BackoffOver_never_over(r) ==
    /\ ai.reqs[r].pc = "backoff"
    /\ ai.reqs[r].elapsed > Backoff(ai.reqs[r].failed)
    /\ ai' = [ai EXCEPT !.reqs[r].pc = "limited"]
    /\ DbUnchanged

\* the wait after a failed attempt is over
BackoffOver(r) ==
    /\ ai.reqs[r].pc = "backoff"
    /\ ai.reqs[r].elapsed >= Backoff(ai.reqs[r].failed)
    /\ ai' = [ai EXCEPT !.reqs[r].pc = "limited"]
    /\ DbUnchanged

\* a second passes
Tick ==
    /\ \A r \in Reqs : ai.reqs[r].pc = "inflight" => ai.reqs[r].elapsed < TIMEOUT
    /\ ai' = [sinceLast |-> IF ai.sinceLast < MIN_INTERVAL THEN ai.sinceLast + 1
                            ELSE ai.sinceLast,
              reqs |-> [r \in Reqs |->
                 LET req == ai.reqs[r]
                 IN  IF req.pc = "inflight"
                     THEN [req EXCEPT !.elapsed = @ + 1]
                     ELSE IF req.pc = "backoff" /\ req.elapsed < Backoff(req.failed)
                     THEN [req EXCEPT !.elapsed = @ + 1]
                     ELSE req]]
    /\ DbUnchanged

NextAI ==
    \/ \E r \in Reqs, i \in AttemptInputs : StartCall(r, i)
    \/ \E r \in Reqs : generateQuiz(r)
    \/ \E r \in Reqs, p \in Payloads : QuizResponse(r, p)
    \/ \E r \in Reqs : IssueCall(r)
    \/ \E r \in Reqs, o \in Outcomes : Respond(r, o)
    \/ \E r \in Reqs : AttemptTimeout(r)
    \/ \E r \in Reqs : BackoffOver(r)
    \/ Tick

SpecAI == Init /\ [][NextAI]_vars

\* what the client process does by itself: its clock advances, a call that
\* waits at the limiter goes out once the interval has passed, the time limit
\* of an attempt and the wait after a failed attempt run out.  The provider
\* is not required to answer.
FairAI ==
    /\ WF_vars(Tick)
    /\ \A r \in Reqs : SF_vars(IssueCall(r))
    /\ \A r \in Reqs : WF_vars(AttemptTimeout(r))
    /\ \A r \in Reqs : WF_vars(BackoffOver(r))

SpecAIFair == SpecAI /\ FairAI

(***************************************************************************)
(* The gemini-proxy edge function: serve(async (req) => ...).  A step is   *)
(* the code between two awaits of the handler.                             *)
(***************************************************************************)
ProxyFrame ==
    UNCHANGED <<users, quizzes, projects, assignments, quiz_attempts, leaderboard,
                lastOp, txns, ai>>

\* the handler returns a response
Return(h, response) == [h EXCEPT !.pc = "responded", !.response = response]

\* an exception reaches the catch block
Catch(h) == [Return(h, ErrorResponse) EXCEPT !.threw = TRUE]

\* a request arrives: an OPTIONS request is answered at once, of any other
\* the body is read
serve(p, req) ==
    /\ proxy[p].pc \in {"idle", "responded"}
    /\ LET h == [IdleHandler EXCEPT !.req = req]
       IN  proxy' = [proxy EXCEPT ![p] =
                        IF req.method = "OPTIONS"
                        THEN Return(h, OkResponse)
                        ELSE [h EXCEPT !.pc = "req.json"]]
    /\ ProxyFrame

\* await req.json() ends; then the Authorization header is looked at
reqJson(p) ==
    /\ proxy[p].pc = "req.json"
    /\ LET h == proxy[p]
       IN  proxy' = [proxy EXCEPT ![p] =
                        IF ~h.req.json THEN Catch(h)
                        ELSE IF ~h.req.authHeader THEN Return(h, Unauthorized)
                        ELSE [h EXCEPT !.pc = "getUser"]]
    /\ ProxyFrame

\* a variant that goes on to the generation API whatever getUser gave
getUser_unchecked(p, outcome) ==
    /\ proxy[p].pc = "getUser"
    /\ LET h == [proxy[p] EXCEPT !.user = outcome]
       IN  proxy' = [proxy EXCEPT ![p] =
                        IF outcome = "throws" THEN Catch(h)
                        ELSE [h EXCEPT !.pc = "fetch", !.upstream = @ + 1]]
    /\ ProxyFrame

\* await supabaseClient.auth.getUser() ends; with a user the generation API
\* is called
getUser(p, outcome) ==
    /\ proxy[p].pc = "getUser"
    /\ LET h == [proxy[p] EXCEPT !.user = outcome]
       IN  proxy' = [proxy EXCEPT ![p] =
                        IF outcome = "throws" THEN Catch(h)
                        ELSE IF outcome = "error" THEN Return(h, Unauthorized)
                        ELSE [h EXCEPT !.pc = "fetch", !.upstream = @ + 1]]
    /\ ProxyFrame

\* await fetch(...) and await response.json() end
fetchGemini(p, outcome) ==
    /\ proxy[p].pc = "fetch"
    /\ proxy' = [proxy EXCEPT ![p] =
                    IF outcome = "json" THEN Return(proxy[p], DataResponse)
                    ELSE Catch(proxy[p])]
    /\ ProxyFrame

NextProxy ==
    \/ \E p \in Handlers, req \in Requests : serve(p, req)
    \/ \E p \in Handlers : reqJson(p)
    \/ \E p \in Handlers, o \in GetUserOutcomes : getUser(p, o)
    \/ \E p \in Handlers, o \in FetchOutcomes : fetchGemini(p, o)

SpecProxy == Init /\ [][NextProxy]_vars

(***************************************************************************)
(* Vocabulary of the properties.                                           *)
(***************************************************************************)
HasEntry(u) == \E e \in leaderboard : e.user_id = u

EntryOf(u) == CHOOSE e \in leaderboard : e.user_id = u

TotalOf(u) == IF HasEntry(u) THEN EntryOf(u).total_points ELSE 0

\* the last statement committed and ran a recomputation for user u
Recomputed(u) ==
    /\ lastOp.outcome = "committed"
    /\ \/ lastOp.user = u
       \/ lastOp.user = AllStudents /\ u \in DOMAIN users /\ users[u] = "student"

\* the entry of u holds what a recomputation for u would write now
Current(u) ==
    /\ HasEntry(u)
    /\ LET e == EntryOf(u)
           f == EntryFor(projects, assignments, quiz_attempts, quizzes, u)
       IN  e.total_points = f.total_points /\ e.breakdown = f.breakdown

\* owners of a set of rows
OwnersOfProjects(S) == { r.owner_id : r \in S }
OwnersOfStudents(S) == { r.student_id : r \in S }

\* positions of an attempt, within the quiz's question count, whose answer is
\* the correct index of the question at the same position
CorrectPositions(qa) ==
    LET questions == quizzes[qa.quiz_id]
    IN  { i \in 1..Len(qa.answers) :
            i <= Len(questions) /\ qa.answers[i] = questions[i] }

RECURSIVE CorrectOver(_)
CorrectOver(S) ==
    IF S = {} THEN 0
    ELSE LET qa == CHOOSE x \in S : TRUE
         IN  Cardinality(CorrectPositions(qa)) + CorrectOver(S \ {qa})

CompletedAttempts(u) ==
    { qa \in quiz_attempts : qa.student_id = u /\ qa.completed_at # NULL }

(***************************************************************************)
(* C1.  After any insert or update of a quiz attempt, assignment or        *)
(* project row completes, the entry of every user who owns the row (the    *)
(* owner before and the owner after an update that moves it) is current.   *)
(***************************************************************************)
WrittenOwners ==
    OwnersOfProjects((projects \ projects') \cup (projects' \ projects))
      \cup OwnersOfStudents((assignments \ assignments') \cup (assignments' \ assignments))
      \cup OwnersOfStudents((quiz_attempts \ quiz_attempts') \cup (quiz_attempts' \ quiz_attempts))

C1_EntriesCurrentAfterWrite ==
    [][ lastOp'.outcome = "committed" => \A u \in WrittenOwners : Current(u)' ]_vars

(***************************************************************************)
(* C2.  The projects subtotal written by a recomputation is 100 times the  *)
(* number of the user's verified projects that are not tagged 'challenge'. *)
(***************************************************************************)
C2_ProjectSubtotalExcludesChallenges ==
    \A u \in Owners :
        Recomputed(u) =>
            /\ HasEntry(u)
            /\ EntryOf(u).breakdown.projects =
                 100 * Cardinality({ p \in projects :
                                       /\ p.owner_id = u
                                       /\ p.verified
                                       /\ "challenge" \notin p.tags })

(***************************************************************************)
(* C3.  Verifying a project tagged 'challenge' raises its owner's total by *)
(* exactly 80.                                                             *)
(***************************************************************************)
C3_VerifiedChallengeAdds80 ==
    [][ \A p \in projects :
          ( /\ ~p.verified
            /\ "challenge" \in p.tags
            /\ projects' = (projects \ {p}) \cup {[p EXCEPT !.verified = TRUE]} )
          => TotalOf(p.owner_id)' = TotalOf(p.owner_id) + 80 ]_vars

(***************************************************************************)
(* C4.  A project's verified flag goes from false to true only by the      *)
(* statement of a user whose role is mentor or admin, and the owning       *)
(* student's own attempt is refused by the policies of projects.           *)
(***************************************************************************)
C4_OnlyMentorOrAdminVerifies ==
    [][ \A s \in Sessions : \A p \in projects :
          ( ~p.verified /\ UpdateProject(s, p, p.owner_id, TRUE, p.tags) )
          => /\ projects' # projects =>
                  s \in DOMAIN users /\ users[s] \in {"mentor", "admin"}
             /\ ( s \in DOMAIN users /\ users[s] = "student" /\ p.owner_id = s )
                  => lastOp'.outcome = "denied" ]_vars

(***************************************************************************)
(* C5.  A client's insert, update or delete on the leaderboard is refused  *)
(* and leaves it unchanged, and a statement on a source relation that the  *)
(* relation's policy permits the client to make commits together with its  *)
(* recomputation.                                                          *)
(***************************************************************************)
ClientLeaderboardStatement(c) ==
    \/ \E u \in Owners : InsertLeaderboard(c, ForgedEntry(u))
    \/ \E e \in leaderboard : UpdateLeaderboard(c, e, 1000)
    \/ \E e \in leaderboard : DeleteLeaderboard(c, e)

ClientSourceStatement(c) ==
    \/ \E o \in Owners, v \in BOOLEAN, t \in TagSets : InsertProject(c, o, v, t)
    \/ \E p \in projects : \E n \in ProjectUpdates(p) :
          UpdateProject(c, p, n.owner_id, n.verified, n.tags)
    \/ \E o \in Owners, url \in {NULL, "url"} : InsertAssignment(c, o, url)
    \/ \E a \in assignments : \E n \in AssignmentUpdates(a) :
          UpdateAssignment(c, a, n.student_id, n.submission_url)
    \/ \E i \in AttemptInputs, o \in Owners, ca \in {NULL, "t"} :
          InsertQuizAttempt(c, i[1], o, i[2], ca)
    \/ \E qa \in quiz_attempts : \E n \in QuizAttemptUpdates(qa) :
          UpdateQuizAttempt(c, qa, n.input[1], n.student_id, n.input[2], n.completed_at)

C5_LeaderboardOnlyByRecomputation ==
    [][ \A c \in Clients :
          /\ ClientLeaderboardStatement(c) =>
                leaderboard' = leaderboard /\ lastOp'.outcome = "denied"
          /\ ClientSourceStatement(c) => lastOp'.outcome \in {"denied", "committed"} ]_vars

\* the statements of the clients, on rows that the exempt session wrote
NextClients ==
    \/ \E o \in Owners, v \in BOOLEAN : InsertProject(Service, o, v, {})
    \/ \E o \in Owners : InsertAssignment(Service, o, NULL)
    \/ \E i \in AttemptInputs : InsertQuizAttempt(Service, i[1], "u1", i[2], "t")
    \/ \E c \in Clients : ClientSourceStatement(c)
    \/ \E c \in Clients : ClientLeaderboardStatement(c)

SpecClients == Init /\ [][NextClients]_vars

(***************************************************************************)
(* C6.  The quizzes subtotal written by a recomputation is the number of   *)
(* correct positions summed over each of the user's completed attempts: an *)
(* attempt with null completed_at and answers past the quiz's last         *)
(* question add nothing.                                                   *)
(***************************************************************************)
C6_QuizSubtotal ==
    \A u \in Owners :
        Recomputed(u) =>
            /\ HasEntry(u)
            /\ EntryOf(u).breakdown.quizzes = CorrectOver(CompletedAttempts(u))

\* two completed attempts of one user, one of them with more answers than
\* its quiz has questions, beside an attempt that is not completed
C6_Witness ==
    \E u \in Owners :
        /\ Recomputed(u)
        /\ Cardinality(CompletedAttempts(u)) = 2
        /\ \E qa \in CompletedAttempts(u) : Len(qa.answers) > Len(quizzes[qa.quiz_id])
        /\ \E qa \in quiz_attempts : qa.student_id = u /\ qa.completed_at = NULL
        /\ EntryOf(u).breakdown.quizzes = 10

(***************************************************************************)
(* C7.  The assignments subtotal written by a recomputation is 20 times    *)
(* the number of the user's assignments with a submission reference, also  *)
(* after the update that sets the reference (on which two triggers run)    *)
(* and after any later update of the row.                                  *)
(***************************************************************************)
C7_AssignmentSubtotal ==
    \A u \in Owners :
        Recomputed(u) =>
            /\ HasEntry(u)
            /\ EntryOf(u).breakdown.assignments =
                 20 * Cardinality({ a \in assignments :
                                      a.student_id = u /\ a.submission_url # NULL })

\* a user with one submitted and one unsubmitted assignment holds 20
C7_Witness ==
    \E u \in Owners :
        /\ Recomputed(u)
        /\ \E a \in assignments : a.student_id = u /\ a.submission_url # NULL
        /\ \E a \in assignments : a.student_id = u /\ a.submission_url = NULL
        /\ EntryOf(u).breakdown.assignments = 20

(***************************************************************************)
(* C8.  The challenges subtotal written by a recomputation is 80 times the *)
(* number of the user's verified projects tagged 'challenge'; an           *)
(* unverified one adds nothing.                                            *)
(***************************************************************************)
C8_ChallengeSubtotal ==
    \A u \in Owners :
        Recomputed(u) =>
            /\ HasEntry(u)
            /\ EntryOf(u).breakdown.challenges =
                 80 * Cardinality({ p \in projects :
                                      /\ p.owner_id = u
                                      /\ p.verified
                                      /\ "challenge" \in p.tags })

\* a user with two verified challenges and an unverified one holds 160
C8_Witness ==
    \E u \in Owners :
        /\ Recomputed(u)
        /\ \E p \in projects :
              p.owner_id = u /\ ~p.verified /\ "challenge" \in p.tags
        /\ EntryOf(u).breakdown.challenges = 160

(***************************************************************************)
(* C9.  Every leaderboard entry has total_points equal to the sum of its   *)
(* four subtotals, and a recomputation for a user whose rows are one       *)
(* completed attempt with 8 of 10 correct, one submitted assignment and    *)
(* one verified project without the challenge tag writes total 128 with    *)
(* breakdown quizzes 8, assignments 20, projects 100, challenges 0.        *)
(***************************************************************************)
ExampleRows(u) ==
    /\ \E qa \in quiz_attempts :
          /\ { x \in quiz_attempts : x.student_id = u } = {qa}
          /\ qa.completed_at # NULL
          /\ Len(quizzes[qa.quiz_id]) = 10
          /\ Cardinality(CorrectPositions(qa)) = 8
    /\ \E a \in assignments :
          /\ { x \in assignments : x.student_id = u } = {a}
          /\ a.submission_url # NULL
    /\ \E p \in projects :
          /\ { x \in projects : x.owner_id = u } = {p}
          /\ p.verified
          /\ "challenge" \notin p.tags

C9_TotalIsSumOfBreakdown ==
    /\ \A e \in leaderboard :
          e.total_points = e.breakdown.quizzes + e.breakdown.assignments
                             + e.breakdown.projects + e.breakdown.challenges
    /\ \A u \in Owners :
          (Recomputed(u) /\ ExampleRows(u)) =>
              /\ HasEntry(u)
              /\ EntryOf(u).total_points = 128
              /\ EntryOf(u).breakdown =
                   [quizzes |-> 8, assignments |-> 20, projects |-> 100, challenges |-> 0]

C9_Witness ==
    \E u \in Owners :
        /\ Recomputed(u)
        /\ ExampleRows(u)
        /\ EntryOf(u).total_points = 128

(***************************************************************************)
(* C10.  When a verified project's flag is set back to false, the owner's  *)
(* total falls by what the project had added (100, and 80 more if it is    *)
(* tagged 'challenge') and the owner's entry is current again.             *)
(***************************************************************************)
Contribution(p) == 100 + (IF "challenge" \in p.tags THEN 80 ELSE 0)

C10_RevocationRemovesContribution ==
    [][ \A p \in projects :
          ( /\ p.verified
            /\ projects' = (projects \ {p}) \cup {[p EXCEPT !.verified = FALSE]} )
          => /\ TotalOf(p.owner_id)' = TotalOf(p.owner_id) - Contribution(p)
             /\ Current(p.owner_id)' ]_vars

(***************************************************************************)
(* C11.  After any recomputation the ranks of the leaderboard entries are  *)
(* the consecutive integers 1..n, n the number of entries, and an entry    *)
(* with a greater total has a smaller rank.                                *)
(***************************************************************************)
RanksDense ==
    /\ { e.rank : e \in leaderboard } = 1..Cardinality(leaderboard)
    /\ \A a, b \in leaderboard :
          /\ (a.total_points > b.total_points => a.rank < b.rank)
          /\ (a.rank = b.rank => a = b)

C11_RanksAfterRecomputation ==
    (lastOp.outcome = "committed" /\ lastOp.user # NULL) => RanksDense

\* the user just recomputed overtook the other entry
C11_Witness ==
    \E a, b \in leaderboard :
        /\ Recomputed(a.user_id)
        /\ lastOp.user = a.user_id
        /\ a.total_points > b.total_points
        /\ b.total_points > 0
        /\ a.rank = 1 /\ b.rank = 2

(***************************************************************************)
(* C12.  A recomputation for a user that directly follows a recomputation  *)
(* for the same user leaves the leaderboard as it was: the same total,     *)
(* breakdown and rank in every entry, entries with equal totals included.  *)
(***************************************************************************)
C12_RecomputeIdempotent ==
    [][ \A u \in Owners :
          ( /\ lastOp.outcome = "committed" /\ lastOp.user = u
            /\ \E s \in Sessions : RefreshUserLeaderboard(s, u) )
          => leaderboard' = leaderboard ]_vars

(***************************************************************************)
(* C14.  A recomputation for a user who has no attempt, no assignment and  *)
(* no project writes an entry with total 0 and all four subtotals 0.       *)
(***************************************************************************)
NoSourceRows(u) ==
    /\ \A p \in projects : p.owner_id # u
    /\ \A a \in assignments : a.student_id # u
    /\ \A qa \in quiz_attempts : qa.student_id # u

C14_ZeroRecordsZeroEntry ==
    \A u \in Owners :
        (Recomputed(u) /\ NoSourceRows(u)) =>
            /\ HasEntry(u)
            /\ EntryOf(u).total_points = 0
            /\ EntryOf(u).breakdown =
                 [quizzes |-> 0, assignments |-> 0, projects |-> 0, challenges |-> 0]

\* recomputed with no rows of their own while another user holds points
C14_Witness ==
    \E u \in Owners :
        /\ Recomputed(u)
        /\ lastOp.user = u
        /\ NoSourceRows(u)
        /\ EntryOf(u).total_points = 0
        /\ \E p \in projects : p.verified
        /\ \E a \in assignments : a.submission_url # NULL
        /\ \E e \in leaderboard : e.total_points >= 120

(***************************************************************************)
(* C17.  A statement whose recomputation raises an error is rolled back:   *)
(* the source relations and the leaderboard stay as they were, and the     *)
(* source relations change only in a step that also leaves the entry of    *)
(* the written row's owner current.                                        *)
(***************************************************************************)
C17_FailedRecomputationAbortsWrite ==
    [][ /\ lastOp'.outcome = "aborted" =>
              UNCHANGED <<projects, assignments, quiz_attempts, leaderboard>>
        /\ <<projects, assignments, quiz_attempts>>' # <<projects, assignments, quiz_attempts>> =>
              /\ lastOp'.outcome = "committed"
              /\ \E u \in Owners : lastOp'.user = u /\ Current(u)' ]_vars

\* a client's statement on a relation that already holds a row of that
\* client was rolled back
C17_Witness ==
    /\ lastOp.outcome = "aborted"
    /\ \E p \in projects : p.owner_id \in Clients

(***************************************************************************)
(* C13.  An entry of the leaderboard disappears only in a step that also   *)
(* removes its user from users, and no user has two entries.               *)
(***************************************************************************)
C13_EntryRemovedOnlyWithUser ==
    [][ /\ \A e \in leaderboard :
              (\A f \in leaderboard' : f.user_id # e.user_id)
                  => e.user_id \notin DOMAIN users'
        /\ \A e, f \in leaderboard' : e.user_id = f.user_id => e = f ]_vars

(***************************************************************************)
(* C15.  When the transactions that wrote source rows of a user have all   *)
(* ended, the entry of the user written last holds every committed row:    *)
(* no write made beside another is missing from the entry.                 *)
(***************************************************************************)
C15_NoLostContribution ==
    \A u \in Owners :
        (AllIdle /\ lastOp.outcome = "committed" /\ lastOp.user = u) => Current(u)

(***************************************************************************)
(* C16.  When recomputations that ran beside each other have all ended,    *)
(* the stored ranks are the integers 1..n and follow descending total.     *)
(***************************************************************************)
C16_RanksAfterConcurrentRecomputations ==
    (AllIdle /\ lastOp.outcome = "committed" /\ lastOp.user # NULL) => RanksDense

(***************************************************************************)
(* C18.  A call makes at most 3 attempts: a failed attempt is followed by  *)
(* another one while fewer than 3 were made, the first success ends the    *)
(* call, and a call whose first two attempts fail and whose third succeeds *)
(* returns the success after exactly 3 attempts.                           *)
(***************************************************************************)
C18_AtMostThreeAttempts ==
    \A r \in Reqs :
        LET req == ai.reqs[r]
        IN  /\ req.attempts <= 3
            /\ req.result = "success" => req.pc = "done" /\ req.attempts = req.failed + 1
            /\ req.result = "failure" => req.pc = "done" /\ req.attempts = 3 /\ req.failed = 3
            /\ req.pc \in {"limited", "backoff"} => req.attempts = req.failed /\ req.failed < 3
            /\ req.pc = "inflight" => req.attempts = req.failed + 1

\* two failed attempts, then a success
C18_Witness ==
    \E r \in Reqs :
        /\ ai.reqs[r].pc = "done"
        /\ ai.reqs[r].result = "success"
        /\ ai.reqs[r].failed = 2
        /\ ai.reqs[r].attempts = 3

(***************************************************************************)
(* C19.  A call that has ended has a success or a failure value, the       *)
(* failure only after 3 failed attempts; the grading result then holds as  *)
(* basicScore the number of submitted answers that equal the correct index *)
(* at the same position, and holds aiGrading exactly when the call         *)
(* succeeded.                                                              *)
(***************************************************************************)
C19_FailureValueAndBasicScore ==
    \A r \in Reqs :
        LET req == ai.reqs[r]
        IN  req.pc = "done" /\ req.kind = "grading" =>
              /\ req.result \in {"success", "failure"}
              /\ req.result = "failure" => req.failed = 3
              /\ req.grading.basicScore =
                   Cardinality(CorrectPositions([quiz_id |-> req.input[1],
                                                 answers |-> req.input[2]]))
              /\ req.grading.aiGrading <=> req.result = "success"

\* all three attempts failed and the submission has its basic score of 8
C19_Witness ==
    \E r \in Reqs :
        /\ ai.reqs[r].pc = "done"
        /\ ai.reqs[r].result = "failure"
        /\ ai.reqs[r].failed = 3
        /\ ai.reqs[r].grading.basicScore = 8
        /\ ~ai.reqs[r].grading.aiGrading

(***************************************************************************)
(* C20.  An outbound call goes out only when at least 1 second has passed  *)
(* since the last one, and a call that is held back by the limiter stays   *)
(* waiting until it goes out: it does not end or fail meanwhile.           *)
(***************************************************************************)
C20_CallsOneSecondApart ==
    [][ \A r \in Reqs :
          ai.reqs[r].pc = "limited" =>
              /\ ai'.reqs[r].pc \in {"limited", "inflight"}
              /\ ai'.reqs[r].pc = "inflight" => ai.sinceLast >= 1 ]_vars

\* a call is held back: another call went out less than a second ago
C20_Witness ==
    \E r \in Reqs :
        /\ ai.reqs[r].pc = "limited"
        /\ ai.sinceLast < 1
        /\ \E o \in Reqs \ {r} : ai.reqs[o].pc = "inflight" /\ ai.reqs[o].elapsed = 0

(***************************************************************************)
(* C21.  Calls of requests that run beside each other go out one after the *)
(* other through the one limiter of the process: two calls that are both   *)
(* under way went out at least 1 second apart, whichever call (grading or  *)
(* quiz generation) each of them is, and a call that went out within the   *)
(* current second is the one the limiter recorded last.                    *)
(***************************************************************************)
C21_ConcurrentCallsSerialize ==
    \A r \in Reqs, o \in Reqs :
        (r # o /\ ai.reqs[r].pc = "inflight" /\ ai.reqs[o].pc = "inflight") =>
            /\ ai.reqs[r].elapsed # ai.reqs[o].elapsed
            /\ ai.reqs[r].elapsed = 0 => ai.sinceLast = 0

\* a grading call and a quiz generation call under way, the second of which
\* went out exactly 1 second after the first
C21_Witness ==
    \E r \in Reqs, o \in Reqs :
        /\ r # o
        /\ ai.reqs[r].pc = "inflight" /\ ai.reqs[r].kind = "grading"
        /\ ai.reqs[o].pc = "inflight" /\ ai.reqs[o].kind = "quiz"
        /\ ai.reqs[r].elapsed = ai.reqs[o].elapsed + 1

(***************************************************************************)
(* C22.  A quiz generation call returns a success only with exactly 5      *)
(* question records, each with a question, an options sequence and a       *)
(* correct index, which are the items of the response of its last attempt; *)
(* an attempt whose response is not JSON or has another shape returns no   *)
(* questions and is counted as a failed attempt of the at most 3.          *)
(***************************************************************************)
C22_MalformedNeverSuccess ==
    \A r \in Reqs :
        LET req        == ai.reqs[r]
            wellFormed == /\ req.raw.status = 200
                          /\ req.raw.json
                          /\ Len(req.raw.items) = 5
                          /\ \A i \in 1..Len(req.raw.items) :
                                /\ "question" \in DOMAIN req.raw.items[i]
                                /\ "options" \in DOMAIN req.raw.items[i]
                                /\ "correctIndex" \in DOMAIN req.raw.items[i]
        IN  req.kind = "quiz" =>
              /\ req.result = "success" =>
                    /\ wellFormed
                    /\ req.questions = req.raw.items
                    /\ Len(req.questions) = 5
              /\ (req.raw # NoPayload /\ ~wellFormed) =>
                    /\ req.result # "success"
                    /\ req.questions = <<>>
                    /\ req.failed = req.attempts
                    /\ req.attempts <= 3

\* a generation that succeeded at its third attempt with 5 questions, beside
\* one whose first response held 4 items and was counted as failed
C22_Witness ==
    \E r \in Reqs, o \in Reqs :
        /\ ai.reqs[r].kind = "quiz" /\ ai.reqs[r].result = "success"
        /\ ai.reqs[r].failed = 2 /\ Len(ai.reqs[r].questions) = 5
        /\ ai.reqs[o].kind = "quiz" /\ ai.reqs[o].pc = "backoff"
        /\ ai.reqs[o].raw.json /\ Len(ai.reqs[o].raw.items) = 4
        /\ ai.reqs[o].failed = 1

(***************************************************************************)
(* C23.  Every call that was made ends, with a success or with a failure,  *)
(* after at most 3 attempts, whatever the provider does: answer with an    *)
(* error, with a body of another shape, or not at all.                     *)
(***************************************************************************)
C23_EveryCallTerminates ==
    \A r \in Reqs :
        (ai.reqs[r].pc \in {"limited", "inflight", "backoff"})
            ~> (/\ ai.reqs[r].pc = "done"
                /\ ai.reqs[r].result \in {"success", "failure"}
                /\ ai.reqs[r].attempts <= 3)

\* a generation ended in failure after 3 attempts, the last of which the
\* provider did not answer within the time limit
C23_Witness ==
    \E r \in Reqs :
        /\ ai.reqs[r].kind = "quiz"
        /\ ai.reqs[r].pc = "done"
        /\ ai.reqs[r].result = "failure"
        /\ ai.reqs[r].attempts = 3
        /\ ai.reqs[r].raw = NoPayload

(***************************************************************************)
(* C24.  In every state each entry of the leaderboard holds the total and  *)
(* the breakdown that the rules give for the current source rows of its    *)
(* user, also after rows were deleted and after the questions of a quiz    *)
(* were edited.                                                            *)
(***************************************************************************)
C24_NoStaleEntry ==
    \A e \in leaderboard : Current(e.user_id)

(***************************************************************************)
(* C25.  In every state, also after a user was deleted and the entry went  *)
(* with it, the ranks stored in the leaderboard are the integers 1..n for  *)
(* its n entries, without gaps and without duplicates.                     *)
(***************************************************************************)
C25_RanksAlwaysDense ==
    /\ { e.rank : e \in leaderboard } = 1..Cardinality(leaderboard)
    /\ \A a, b \in leaderboard : a.rank = b.rank => a = b

(***************************************************************************)
(* C26.  When refresh_all_leaderboard has completed, the leaderboard holds *)
(* one entry for each user whose role is student and no entry of another   *)
(* user, each entry holds the total and breakdown the rules give for the   *)
(* rows of its user, and the ranks are 1..n by descending total.           *)
(***************************************************************************)
C26_RefreshAllRebuilds ==
    (lastOp.outcome = "committed" /\ lastOp.user \in {AllStudents, SomeStudents}) =>
        /\ { e.user_id : e \in leaderboard }
              = { u \in DOMAIN users : users[u] = "student" }
        /\ \A e, f \in leaderboard : e.user_id = f.user_id => e = f
        /\ \A e \in leaderboard : Current(e.user_id)
        /\ RanksDense

(***************************************************************************)
(* C27.  A statement that recomputes the entry of user X leaves the        *)
(* total_points and the breakdown of every entry of another user as they   *)
(* were, and neither adds nor removes an entry of another user: of the     *)
(* other entries only the rank may change.                                 *)
(***************************************************************************)
C27_OtherEntriesKeepPoints ==
    [][ \A x \in Owners :
          (lastOp'.outcome = "committed" /\ lastOp'.user = x) =>
              /\ \A e \in leaderboard :
                    e.user_id # x =>
                        \E f \in leaderboard' :
                            /\ f.user_id = e.user_id
                            /\ f.total_points = e.total_points
                            /\ f.breakdown = e.breakdown
              /\ \A f \in leaderboard' :
                    f.user_id # x => \E e \in leaderboard : e.user_id = f.user_id ]_vars

\* the user just recomputed holds 120 points and rank 1, above the entry of
\* another user, which holds its 100 points of a verified project
C27_Witness ==
    \E a, b \in leaderboard :
        /\ lastOp.outcome = "committed" /\ lastOp.user = a.user_id
        /\ a.user_id # b.user_id
        /\ a.total_points = 120 /\ a.rank = 1
        /\ b.total_points = 100 /\ b.breakdown.projects = 100 /\ b.rank = 2

C29_NoSelfPromotion ==
    [][ \A u \in DOMAIN users :
          users[u] \in {"student", "banned"} => users'[u] \notin {"mentor", "admin"} ]_vars

(***************************************************************************)
(* C30, as stated.  A request without an Authorization header, or whose    *)
(* token gave no user, is answered with status 401, or with status 500 and *)
(* an error body when an exception was thrown, and no call of the          *)
(* generation API was made for it.                                         *)
(***************************************************************************)
C30_Original ==
    \A p \in Handlers :
        LET h == proxy[p]
        IN  (h.pc = "responded" /\ (~h.req.authHeader \/ h.user # "user")) =>
              /\ h.upstream = 0
              /\ \/ h.response.status = 401
                 \/ h.threw /\ h.response.status = 500 /\ h.response.body = "error"

(***************************************************************************)
(* C30, amended.  The generation API is called only for a request that is  *)
(* no OPTIONS request, whose body parsed as JSON, that has an              *)
(* Authorization header and whose token gave a user, and at most once.  A  *)
(* request without such a user is answered with 200 and the body ok when   *)
(* it is an OPTIONS request, with 500 and an error body when reading its   *)
(* body or the lookup of the user threw, and with 401 otherwise.  Every    *)
(* exception during handling yields status 500 with an error body, and     *)
(* only an exception does.                                                 *)
(***************************************************************************)
C30_NoUpstreamWithoutUser ==
    \A p \in Handlers :
        LET h == proxy[p]
        IN  /\ h.upstream <= 1
            /\ h.upstream = 1 =>
                  /\ h.req.method # "OPTIONS"
                  /\ h.req.json
                  /\ h.req.authHeader
                  /\ h.user = "user"
            /\ (h.pc = "responded" /\ (~h.req.authHeader \/ h.user # "user")) =>
                  h.response =
                     IF h.req.method = "OPTIONS" THEN [status |-> 200, body |-> "ok"]
                     ELSE IF ~h.req.json \/ h.user = "throws"
                     THEN [status |-> 500, body |-> "error"]
                     ELSE [status |-> 401, body |-> "Unauthorized"]
            /\ h.threw <=> (h.pc = "responded" /\ h.response.status = 500)
            /\ h.response.status = 500 => h.response.body = "error"

\* a request without the header and one whose token gave no user were both
\* answered with 401, and no call of the generation API was made for them
C30_Witness ==
    \E p \in Handlers, q \in Handlers :
        /\ proxy[p].pc = "responded" /\ proxy[p].req.method = "POST"
        /\ ~proxy[p].req.authHeader /\ proxy[p].response.status = 401
        /\ proxy[q].pc = "responded" /\ proxy[q].req.authHeader
        /\ proxy[q].user = "error" /\ proxy[q].response.status = 401
        /\ proxy[p].upstream = 0 /\ proxy[q].upstream = 0

====
